---- MODULE Spec2Model ----
(***************************************************************************)
(* Key-derivation sessions of sodiumoxide (src/crypto/kdf/mod.rs):         *)
(* Session.generate_next_key, SessionBuilder and the hand-written serde    *)
(* codec of Session.                                                       *)
(*                                                                         *)
(* The specifications share the variables:                                 *)
(*   Spec        a Session built by the builder, driven by                 *)
(*               generate_next_key calls;                                  *)
(*   SpecBuilder the SessionBuilder setters and its two build operations;  *)
(*   SpecCodec   Serialize / Deserialize of a Session;                     *)
(*   SpecBuilderCodec  the builder and the codec together;                 *)
(*   SpecPair    two Sessions built alike, each driven on its own.         *)
(***************************************************************************)
EXTENDS Integers, Sequences, FiniteSets, TLC

(***************************************************************************)
(* Program constants (libsodium's crypto_kdf_blake2b_* values).            *)
(***************************************************************************)
DERIVED_KEY_BYTES_MIN == 16
DERIVED_KEY_BYTES_MAX == 64
MASTER_KEY_BYTES == 32
CONTEXT_BYTES == 8

(***************************************************************************)
(* Bounds of the model.                                                    *)
(***************************************************************************)
\* generate_next_key calls made on one Session
MaxCalls == 3
\* entries of a record handed to the deserializer
MaxEntries == 4

(***************************************************************************)
(* Option<T>.                                                              *)
(***************************************************************************)
None == [some |-> FALSE]
Some(v) == [some |-> TRUE, val |-> v]

(***************************************************************************)
(* u64: four 16-bit limbs, most significant first, so that the full 64-bit *)
(* width is kept.                                                          *)
(***************************************************************************)
LIMB_MAX == 65535
U64(n) == <<0, 0, 0, n>>
U64_MAX == <<LIMB_MAX, LIMB_MAX, LIMB_MAX, LIMB_MAX>>
U64_MAX_MINUS_1 == <<LIMB_MAX, LIMB_MAX, LIMB_MAX, LIMB_MAX - 1>>

\* x + 1 modulo 2^64
wrapping_add_1(x) ==
    IF x[4] < LIMB_MAX THEN <<x[1], x[2], x[3], x[4] + 1>>
    ELSE IF x[3] < LIMB_MAX THEN <<x[1], x[2], x[3] + 1, 0>>
    ELSE IF x[2] < LIMB_MAX THEN <<x[1], x[2] + 1, 0, 0>>
    ELSE IF x[1] < LIMB_MAX THEN <<x[1] + 1, 0, 0, 0>>
    ELSE <<0, 0, 0, 0>>

\* x - 1 modulo 2^64
wrapping_sub_1(x) ==
    IF x[4] > 0 THEN <<x[1], x[2], x[3], x[4] - 1>>
    ELSE IF x[3] > 0 THEN <<x[1], x[2], x[3] - 1, LIMB_MAX>>
    ELSE IF x[2] > 0 THEN <<x[1], x[2] - 1, LIMB_MAX, LIMB_MAX>>
    ELSE IF x[1] > 0 THEN <<x[1] - 1, LIMB_MAX, LIMB_MAX, LIMB_MAX>>
    ELSE U64_MAX

\* a < b on u64
U64Less(a, b) ==
    \/ a[1] < b[1]
    \/ a[1] = b[1] /\ a[2] < b[2]
    \/ a[1] = b[1] /\ a[2] = b[2] /\ a[3] < b[3]
    \/ a[1] = b[1] /\ a[2] = b[2] /\ a[3] = b[3] /\ a[4] < b[4]

\* `x += 1` / `x - 1` on u64: with overflow checks (debug profile) the
\* operation panics on overflow, without them (release profile) it wraps.
u64_add_1(x, checks) ==
    IF checks /\ x = U64_MAX
    THEN [panic |-> TRUE, val |-> x]
    ELSE [panic |-> FALSE, val |-> wrapping_add_1(x)]

u64_sub_1(x, checks) ==
    IF checks /\ x = U64(0)
    THEN [panic |-> TRUE, val |-> x]
    ELSE [panic |-> FALSE, val |-> wrapping_sub_1(x)]

(***************************************************************************)
(* MasterKey and Context: fixed-length byte arrays.                        *)
(***************************************************************************)
Bytes(len, b) == [j \in 1..len |-> b]
ZERO_CONTEXT == Bytes(CONTEXT_BYTES, 0)
CtxA == [j \in 1..CONTEXT_BYTES |-> j]
KeyA == Bytes(MASTER_KEY_BYTES, 7)
KeyB == [j \in 1..MASTER_KEY_BYTES |-> j]
ZERO_KEY == Bytes(MASTER_KEY_BYTES, 0)

\* the values the model draws its inputs from
Contexts == {ZERO_CONTEXT, CtxA}
Keys == {KeyA, KeyB}
Indices == {U64(0), U64(42), U64_MAX_MINUS_1, U64_MAX}
BufferLens == {DERIVED_KEY_BYTES_MIN - 1, DERIVED_KEY_BYTES_MIN,
               DERIVED_KEY_BYTES_MAX, DERIVED_KEY_BYTES_MAX + 1}

VARIABLES
    session,          \* Option<Session>: the Session under study
    overflow_checks,  \* build profile: TRUE = arithmetic overflow panics
    panicked,         \* a panic has unwound out of an operation
    call_log,         \* one entry per generate_next_key call on session
    builder,          \* the SessionBuilder
    last,             \* the last builder operation: its receiver and result
    wire,             \* the structured record in transit
    decoded,          \* result of the last Session::deserialize
    pair              \* two Sessions built alike, with their calls (SpecPair)

vars == <<session, overflow_checks, panicked, call_log, builder, last, wire, decoded, pair>>

(***************************************************************************)
(* SessionBuilder.                                                         *)
(***************************************************************************)
\* SessionBuilder::new
SessionBuilder_new == [index |-> None, context |-> None, key |-> None]

\* SessionBuilder::index
SessionBuilder_index(self, i) == [self EXCEPT !.index = Some(i)]

\* SessionBuilder::key
SessionBuilder_key_first_write_wins(self, key) ==
    IF self.key.some THEN self ELSE [self EXCEPT !.key = Some(key)]

SessionBuilder_key(self, key) == [self EXCEPT !.key = Some(key)]

\* SessionBuilder::context
SessionBuilder_context(self, context) == [self EXCEPT !.context = Some(context)]

\* Option::unwrap_or_else
unwrap_or_else(opt, default) == IF opt.some THEN opt.val ELSE default

\* SessionBuilder::build: Option<Session>
build_default_index_one(self) ==
    IF ~self.key.some
    THEN None
    ELSE Some([index |-> unwrap_or_else(self.index, U64(1)),
               context |-> unwrap_or_else(self.context, Bytes(8, 0)),
               key |-> self.key.val])

build_zero_key_default(self) ==
    Some([index |-> unwrap_or_else(self.index, U64(0)),
          context |-> unwrap_or_else(self.context, Bytes(8, 0)),
          key |-> unwrap_or_else(self.key, ZERO_KEY)])

build(self) ==
    LET index == unwrap_or_else(self.index, U64(0))
        context == unwrap_or_else(self.context, Bytes(8, 0))
    IN  IF ~self.key.some
        THEN None
        ELSE Some([index |-> index, context |-> context, key |-> self.key.val])

\* SessionBuilder::build_full: Result<Session, [bool; 3]>.  `panic` is the
\* unwrap of a build() that returned None.
build_full_report_reversed(self) ==
    LET outs == <<~self.key.some, ~self.context.some, ~self.index.some>>
    IN  IF ~self.index.some \/ ~self.context.some \/ ~self.key.some
        THEN [ok |-> FALSE, panic |-> FALSE, err |-> outs]
        ELSE IF build(self).some
             THEN [ok |-> TRUE, panic |-> FALSE, val |-> build(self).val]
             ELSE [ok |-> FALSE, panic |-> TRUE]

build_full_no_key_case(self) ==
    LET outs == <<~self.index.some, ~self.context.some, ~self.key.some>>
    IN  IF ~self.index.some \/ ~self.context.some
        THEN [ok |-> FALSE, panic |-> FALSE, err |-> outs]
        ELSE IF build(self).some
             THEN [ok |-> TRUE, panic |-> FALSE, val |-> build(self).val]
             ELSE [ok |-> FALSE, panic |-> TRUE]

build_full_lenient(self) ==
    IF build(self).some
    THEN [ok |-> TRUE, panic |-> FALSE, val |-> build(self).val]
    ELSE [ok |-> FALSE, panic |-> FALSE,
          err |-> <<~self.index.some, ~self.context.some, ~self.key.some>>]

build_full(self) ==
    LET outs == <<~self.index.some, ~self.context.some, ~self.key.some>>
    IN  IF ~self.index.some \/ ~self.context.some \/ ~self.key.some
        THEN [ok |-> FALSE, panic |-> FALSE, err |-> outs]
        ELSE IF build(self).some
             THEN [ok |-> TRUE, panic |-> FALSE, val |-> build(self).val]
             ELSE [ok |-> FALSE, panic |-> TRUE]

(***************************************************************************)
(* Session.generate_next_key.                                              *)
(***************************************************************************)
\* The bytes the derivation primitive writes for (len, index, context, key):
\* a deterministic function of its inputs, never the all-zero buffer.
subkey_bytes(len, index, ctx, key) ==
    [j \in 1..len |-> 1 + ((j + index[4] + ctx[1] + key[1]) % 255)]

\* ffi::crypto_kdf_blake2b_derive_from_key: the outcomes the primitive can
\* produce, each a return code and the bytes left in the buffer.  On
\* success the buffer holds the subkey; on failure its contents are
\* unspecified (untouched or written).
crypto_kdf_blake2b_derive_from_key(subkey, len, index, ctx, key) ==
    {[rc |-> 0, subkey |-> subkey_bytes(len, index, ctx, key)]}
    \cup {[rc |-> -1, subkey |-> b] : b \in {subkey, subkey_bytes(len, index, ctx, key)}}

\* the length check of generate_next_key: the buffer is rejected
invalid_len_no_upper(len) == len < DERIVED_KEY_BYTES_MIN

invalid_len(len) == len < DERIVED_KEY_BYTES_MIN \/ DERIVED_KEY_BYTES_MAX < len

\* `self.index += 1`
advance_forgotten(index, checks) == [panic |-> FALSE, val |-> index]

advance(index, checks) == u64_add_1(index, checks)

\* the value returned once the index has been advanced to index_after
returned_ignores_rc(rc, index_after, checks) ==
    LET dec == u64_sub_1(index_after, checks)
    IN  [panic |-> dec.panic, val |-> IF dec.panic THEN None ELSE Some(dec.val)]

returned(rc, index_after, checks) ==
    IF rc = 0
    THEN LET dec == u64_sub_1(index_after, checks)
         IN  [panic |-> dec.panic, val |-> IF dec.panic THEN None ELSE Some(dec.val)]
    ELSE [panic |-> FALSE, val |-> None]

\* Session::generate_next_key(&mut self, buffer): the set of outcomes of one
\* call.  Each outcome holds the session and the buffer after the call, the
\* value returned (Option<u64>), the index handed to the primitive (None
\* when the primitive was not invoked), the primitive's return code and
\* whether the call panicked.
generate_next_key(self, buffer, checks) ==
    LET len == Len(buffer)
    IN  IF invalid_len(len)
        THEN {[self |-> self, buffer |-> buffer, ret |-> None,
               passed |-> None, rc |-> None, panic |-> FALSE]}
        ELSE {LET inc == advance(self.index, checks)
                  out == returned(r.rc, inc.val, checks)
              IN  IF inc.panic
                  THEN [self |-> self, buffer |-> r.subkey, ret |-> None,
                        passed |-> Some(self.index), rc |-> Some(r.rc),
                        panic |-> TRUE]
                  ELSE [self |-> [self EXCEPT !.index = inc.val],
                        buffer |-> r.subkey, ret |-> out.val,
                        passed |-> Some(self.index), rc |-> Some(r.rc),
                        panic |-> out.panic]
              : r \in crypto_kdf_blake2b_derive_from_key(
                          buffer, len, self.index, self.context, self.key)}

(***************************************************************************)
(* Spec: a Session built by SessionBuilder::build, then a sequence of      *)
(* generate_next_key calls made one at a time.                             *)
(***************************************************************************)
\* the builders a Session of Spec is built from
InitBuilders ==
    [index : {None} \cup {Some(i) : i \in Indices \ {U64(0)}},
     context : {None, Some(CtxA)},
     key : {Some(k) : k \in Keys}]

NoOp == [op |-> "none"]

Init ==
    /\ overflow_checks \in BOOLEAN
    /\ \E b \in InitBuilders :
          /\ build(b).some
          /\ builder = b
          /\ session = build(b)
    /\ panicked = FALSE
    /\ call_log = <<>>
    /\ last = NoOp
    /\ wire = None
    /\ decoded = None
    /\ pair = None

\* one call session.generate_next_key(&mut buffer) with a zeroed buffer of
\* length len; a panic ends the use of the session
GenerateNextKey(len) ==
    /\ session.some
    /\ ~panicked
    /\ Len(call_log) < MaxCalls
    /\ \E o \in generate_next_key(session.val, Bytes(len, 0), overflow_checks) :
          /\ session' = Some(o.self)
          /\ panicked' = o.panic
          /\ call_log' = Append(call_log,
                [len |-> len, pre |-> session.val, buf_in |-> Bytes(len, 0),
                 post |-> o.self, buf_out |-> o.buffer, ret |-> o.ret,
                 passed |-> o.passed, rc |-> o.rc, panic |-> o.panic])
    /\ UNCHANGED <<pair, overflow_checks, builder, last, wire, decoded>>

Next == \E len \in BufferLens : GenerateNextKey(len)

Spec == Init /\ [][Next]_vars

(***************************************************************************)
(* Claims about Session.generate_next_key, over the calls made so far.     *)
(***************************************************************************)
Calls == DOMAIN call_log
ValidLen(e) == DERIVED_KEY_BYTES_MIN <= e.len /\ e.len <= DERIVED_KEY_BYTES_MAX

\* C1: when the derivation primitive reports failure (buffer length in
\* [MIN, MAX]), the index after the call equals the index before it.
C1_IndexKeptOnPrimitiveFailure ==
    \A n \in Calls :
        (ValidLen(call_log[n]) /\ call_log[n].rc.some /\ call_log[n].rc.val # 0)
            => call_log[n].post.index = call_log[n].pre.index

\* C2: a call with a buffer shorter than MIN or longer than MAX returns
\* failure without invoking the primitive, leaves index, context and key
\* unchanged and does not write the buffer; a following valid call hands the
\* primitive the index the session had before the rejected call.
C2_InvalidLengthHasNoEffect ==
    \A n \in Calls :
        ~ValidLen(call_log[n]) =>
            /\ ~call_log[n].ret.some
            /\ ~call_log[n].passed.some
            /\ ~call_log[n].panic
            /\ call_log[n].post = call_log[n].pre
            /\ call_log[n].buf_out = call_log[n].buf_in
            /\ (n + 1 \in Calls /\ ValidLen(call_log[n + 1]))
                   => call_log[n + 1].passed = Some(call_log[n].pre.index)

\* a too-long buffer was rejected and the next call, with a valid length,
\* succeeded
C2_Witness ==
    /\ Len(call_log) >= 2
    /\ \E n \in Calls :
          /\ n + 1 \in Calls
          /\ call_log[n].len > DERIVED_KEY_BYTES_MAX
          /\ ValidLen(call_log[n + 1])
          /\ call_log[n + 1].ret.some

\* C3: when the primitive succeeds, the call hands the primitive the
\* session's current index, returns that same index and leaves the index
\* exactly one greater than before the call.
C3_SuccessReturnsUsedIndexAndAdvances ==
    \A n \in Calls :
        (call_log[n].rc = Some(0)) =>
            /\ call_log[n].passed = Some(call_log[n].pre.index)
            /\ call_log[n].ret = Some(call_log[n].pre.index)
            /\ call_log[n].post.index = wrapping_add_1(call_log[n].pre.index)
            /\ U64Less(call_log[n].pre.index, call_log[n].post.index)

\* C4: over any sequence of calls, also at the maximum 64-bit value, the
\* index never decreases and never wraps to a smaller value.
C4_IndexNeverDecreases ==
    \A n \in Calls : ~U64Less(call_log[n].post.index, call_log[n].pre.index)

LengthFailure(e) == ~ValidLen(e)
\* the primitive was invoked and reported an error, and the call returned
BackendFailure(e) == e.rc.some /\ e.rc.val # 0 /\ ~e.panic

\* C19 as stated: the value returned for a derivation-backend failure
\* differs from the value returned for an invalid output length.
C19_FailuresDistinct ==
    \A m, n \in Calls :
        (LengthFailure(call_log[m]) /\ BackendFailure(call_log[n]))
            => call_log[m].ret # call_log[n].ret

\* C19 amended: both failures return the same value, None, so the return
\* value alone does not tell them apart.
C19_FailuresBothNone ==
    \A n \in Calls :
        (LengthFailure(call_log[n]) \/ BackendFailure(call_log[n]))
            => call_log[n].ret = None

\* one call was rejected for its length and another failed in the backend
C19_Witness ==
    \E m, n \in Calls :
        LengthFailure(call_log[m]) /\ BackendFailure(call_log[n])

(***************************************************************************)
(* SpecBuilder: a new SessionBuilder, its setters called in any order and  *)
(* any number of times, and build / build_full called on it.  `last`       *)
(* records the receiver and the result of the last operation.              *)
(***************************************************************************)
InitBuilder ==
    /\ overflow_checks \in BOOLEAN
    /\ builder = SessionBuilder_new
    /\ session = None
    /\ panicked = FALSE
    /\ call_log = <<>>
    /\ last = NoOp
    /\ wire = None
    /\ decoded = None
    /\ pair = None

\* generate_key / generate_context: randombytes_into fills the array
generate_key == Keys \cup {ZERO_KEY}
generate_context == Contexts

SetIndex(i) ==
    /\ ~panicked
    /\ builder' = SessionBuilder_index(builder, i)
    /\ last' = [op |-> "index", self |-> builder, arg |-> i]
    /\ UNCHANGED <<pair, session, overflow_checks, panicked, call_log, wire, decoded>>

SetKey(k) ==
    /\ ~panicked
    /\ builder' = SessionBuilder_key(builder, k)
    /\ last' = [op |-> "key", self |-> builder, arg |-> k]
    /\ UNCHANGED <<pair, session, overflow_checks, panicked, call_log, wire, decoded>>

RandomKey ==
    /\ ~panicked
    /\ \E k \in generate_key :
          /\ builder' = SessionBuilder_key(builder, k)
          /\ last' = [op |-> "random_key", self |-> builder, arg |-> k]
    /\ UNCHANGED <<pair, session, overflow_checks, panicked, call_log, wire, decoded>>

SetContext(c) ==
    /\ ~panicked
    /\ builder' = SessionBuilder_context(builder, c)
    /\ last' = [op |-> "context", self |-> builder, arg |-> c]
    /\ UNCHANGED <<pair, session, overflow_checks, panicked, call_log, wire, decoded>>

RandomContext ==
    /\ ~panicked
    /\ \E c \in generate_context :
          /\ builder' = SessionBuilder_context(builder, c)
          /\ last' = [op |-> "random_context", self |-> builder, arg |-> c]
    /\ UNCHANGED <<pair, session, overflow_checks, panicked, call_log, wire, decoded>>

\* builder.build(): the builder is borrowed, the Session (if any) is new
Build_consumes_builder ==
    /\ ~panicked
    /\ last' = [op |-> "build", self |-> builder, result |-> build(builder)]
    /\ session' = IF build(builder).some THEN build(builder) ELSE session
    /\ builder' = IF build(builder).some THEN SessionBuilder_new ELSE builder
    /\ UNCHANGED <<pair, overflow_checks, panicked, call_log, wire, decoded>>

Build ==
    /\ ~panicked
    /\ last' = [op |-> "build", self |-> builder, result |-> build(builder)]
    /\ session' = IF build(builder).some THEN build(builder) ELSE session
    /\ UNCHANGED <<pair, builder, overflow_checks, panicked, call_log, wire, decoded>>

\* builder.build_full()
BuildFull ==
    /\ ~panicked
    /\ last' = [op |-> "build_full", self |-> builder, result |-> build_full(builder)]
    /\ session' = IF build_full(builder).ok THEN Some(build_full(builder).val) ELSE session
    /\ panicked' = build_full(builder).panic
    /\ UNCHANGED <<pair, builder, overflow_checks, call_log, wire, decoded>>

NextBuilder ==
    \/ \E i \in Indices : SetIndex(i)
    \/ \E k \in Keys : SetKey(k)
    \/ RandomKey
    \/ \E c \in Contexts : SetContext(c)
    \/ RandomContext
    \/ Build
    \/ BuildFull

SpecBuilder == InitBuilder /\ [][NextBuilder]_vars

AllSet(b) == b.index.some /\ b.context.some /\ b.key.some

\* C7: build_full succeeds if and only if index, context and key have all
\* been set; otherwise it fails with the report (index absent, context
\* absent, key absent), so that only key set gives (true, true, false).
C7_BuildFullStrict ==
    last.op = "build_full" =>
        /\ last.result.ok <=> AllSet(last.self)
        /\ ~last.result.panic
        /\ ~last.result.ok =>
              /\ Len(last.result.err) = 3
              /\ last.result.err[1] = ~last.self.index.some
              /\ last.result.err[2] = ~last.self.context.some
              /\ last.result.err[3] = ~last.self.key.some
        /\ (~last.self.index.some /\ ~last.self.context.some /\ last.self.key.some)
              => last.result.err = <<TRUE, TRUE, FALSE>>

\* build_full was called on a builder with only the key set
C7_Witness ==
    /\ last.op = "build_full"
    /\ ~last.self.index.some /\ ~last.self.context.some /\ last.self.key.some
    /\ ~last.result.ok

\* C8: build fails whenever no key has been set; with a key set it succeeds
\* with that key, the set index or 0, and the set context or the all-zero
\* context.
C8_BuildDefaults ==
    last.op = "build" =>
        /\ ~last.self.key.some => last.result = None
        /\ last.self.key.some =>
              /\ last.result.some
              /\ last.result.val.key = last.self.key.val
              /\ last.result.val.index =
                    (IF last.self.index.some THEN last.self.index.val ELSE <<0, 0, 0, 0>>)
              /\ last.result.val.context =
                    (IF last.self.context.some THEN last.self.context.val
                     ELSE [j \in 1..CONTEXT_BYTES |-> 0])

\* build was called with a key but neither index nor context set and
\* returned a Session
C8_Witness ==
    /\ last.op = "build"
    /\ last.self.key.some /\ ~last.self.index.some /\ ~last.self.context.some
    /\ last.result.some

\* C16: the setters are last-write-wins per field and independent: after a
\* setter call the field holds the value just given and the other two fields
\* are as before (a field never set is absent); build and build_full produce
\* a Session from exactly the values the builder holds.
C16_SettersLastWriteWins ==
    /\ last.op = "none" => builder = SessionBuilder_new
    /\ last.op = "index" =>
          /\ builder.index = Some(last.arg)
          /\ builder.context = last.self.context /\ builder.key = last.self.key
    /\ last.op \in {"context", "random_context"} =>
          /\ builder.context = Some(last.arg)
          /\ builder.index = last.self.index /\ builder.key = last.self.key
    /\ last.op \in {"key", "random_key"} =>
          /\ builder.key = Some(last.arg)
          /\ builder.index = last.self.index /\ builder.context = last.self.context
    /\ (last.op = "build" /\ last.result.some) =>
          /\ last.result.val.key = builder.key.val
          /\ builder.index.some => last.result.val.index = builder.index.val
          /\ builder.context.some => last.result.val.context = builder.context.val
    /\ (last.op = "build_full" /\ last.result.ok) =>
          last.result.val = [index |-> builder.index.val,
                             context |-> builder.context.val,
                             key |-> builder.key.val]

\* the key setter was called on a builder that already held another key,
\* with index and context set
C16_Witness ==
    /\ last.op = "key"
    /\ last.self.key.some /\ last.self.key.val # last.arg
    /\ last.self.index.some /\ last.self.context.some

\* the last operation was a build or build_full that returned a Session
BuiltSession ==
    \/ last.op = "build" /\ last.result.some
    \/ last.op = "build_full" /\ last.result.ok

\* C17 as stated: after a successful build or build_full the builder no
\* longer holds the key, so it cannot build the key into a second Session.
C17_KeyMovedOutOfBuilder ==
    BuiltSession => (~builder.key.some /\ ~build(builder).some)

\* C17 amended: a successful build or build_full gives the Session a copy of
\* the builder's key; the builder is only borrowed, holds the same fields
\* afterwards, and building again from it yields a Session with that key.
C17_KeyCopiedIntoSession ==
    BuiltSession =>
        /\ builder = last.self
        /\ builder.key = Some(session.val.key)
        /\ build(builder).some
        /\ build(builder).val.key = session.val.key

\* build returned a Session
C17_Witness ==
    /\ last.op = "build"
    /\ last.result.some
    /\ session = last.result

(***************************************************************************)
(* The serde codec of Session.                                             *)
(***************************************************************************)
SESSION_TYPE_STRING == "Session"
SESSION_INDEX_STRING == "index"
SESSION_CONTEXT_STRING == "context"
SESSION_KEY_STRING == "key"
SESSION_FIELDS_ARRAY == <<SESSION_KEY_STRING, SESSION_INDEX_STRING>>

\* impl Serialize for Session: the struct name and the number of fields
\* announced to serialize_struct, then the fields in the order emitted
serialize(self) ==
    [name |-> SESSION_TYPE_STRING,
     len |-> 2,
     fields |-> <<[name |-> SESSION_INDEX_STRING, value |-> self.index],
                  [name |-> SESSION_CONTEXT_STRING, value |-> self.context],
                  [name |-> SESSION_KEY_STRING, value |-> self.key]>>]

\* The data formats behind the Serializer / Deserializer: a "delimited"
\* format closes the record with a delimiter and does not use the announced
\* length; a "counted" format writes the announced length as the record's
\* header and its reader takes that many entries as the record.
Formats == {"delimited", "counted"}

Min(a, b) == IF a < b THEN a ELSE b

\* the entries MapAccess yields for a written record
map_entries(w) ==
    IF w.format = "counted"
    THEN SubSeq(w.fields, 1, Min(w.len, Len(w.fields)))
    ELSE w.fields

\* the `for _ in 0..3` loop of visit_map after n iterations, with the
\* builder b filled so far
RECURSIVE visit_loop_stops_at_end(_, _, _)
visit_loop_stops_at_end(entries, n, b) ==
    IF n = 3 \/ n >= Len(entries)
    THEN [done |-> TRUE, builder |-> b, read |-> n]
    ELSE LET mapkey == entries[n + 1].name
             value == entries[n + 1].value
         IN  IF mapkey = SESSION_INDEX_STRING
             THEN visit_loop_stops_at_end(entries, n + 1, SessionBuilder_index(b, value))
             ELSE IF mapkey = SESSION_CONTEXT_STRING
             THEN visit_loop_stops_at_end(entries, n + 1, SessionBuilder_context(b, value))
             ELSE IF mapkey = SESSION_KEY_STRING
             THEN visit_loop_stops_at_end(entries, n + 1, SessionBuilder_key(b, value))
             ELSE [done |-> FALSE, read |-> n + 1,
                   err |-> [kind |-> "unknown_field", field |-> mapkey,
                            expected |-> SESSION_FIELDS_ARRAY]]

RECURSIVE visit_loop(_, _, _)
visit_loop(entries, n, b) ==
    IF n = 3
    THEN [done |-> TRUE, builder |-> b, read |-> n]
    ELSE IF n >= Len(entries)
    THEN [done |-> FALSE, read |-> n,
          err |-> [kind |-> "invalid_length", len |-> Len(SESSION_FIELDS_ARRAY)]]
    ELSE LET mapkey == entries[n + 1].name
             value == entries[n + 1].value
         IN  IF mapkey = SESSION_INDEX_STRING
             THEN visit_loop(entries, n + 1, SessionBuilder_index(b, value))
             ELSE IF mapkey = SESSION_CONTEXT_STRING
             THEN visit_loop(entries, n + 1, SessionBuilder_context(b, value))
             ELSE IF mapkey = SESSION_KEY_STRING
             THEN visit_loop(entries, n + 1, SessionBuilder_key(b, value))
             ELSE [done |-> FALSE, read |-> n + 1,
                   err |-> [kind |-> "unknown_field", field |-> mapkey,
                            expected |-> SESSION_FIELDS_ARRAY]]

\* StructVisitor::visit_map: Result<Session, A::Error>, and the number of
\* entries taken from the map
visit_map_key_first(entries) ==
    LET r == visit_loop(entries, 0, SessionBuilder_new)
        full == build_full(r.builder)
    IN  IF ~r.done
        THEN [ok |-> FALSE, panic |-> FALSE, err |-> r.err, read |-> r.read]
        ELSE IF full.ok
        THEN [ok |-> TRUE, panic |-> FALSE, val |-> full.val, read |-> r.read]
        ELSE IF full.panic
        THEN [ok |-> FALSE, panic |-> TRUE, read |-> r.read]
        ELSE IF full.err[3]
        THEN [ok |-> FALSE, panic |-> FALSE, read |-> r.read,
              err |-> [kind |-> "missing_field", field |-> "key"]]
        ELSE IF full.err[2]
        THEN [ok |-> FALSE, panic |-> FALSE, read |-> r.read,
              err |-> [kind |-> "missing_field", field |-> "context"]]
        ELSE IF full.err[1]
        THEN [ok |-> FALSE, panic |-> FALSE, read |-> r.read,
              err |-> [kind |-> "missing_field", field |-> "index"]]
        ELSE [ok |-> FALSE, panic |-> TRUE, read |-> r.read]

visit_map(entries) ==
    LET r == visit_loop(entries, 0, SessionBuilder_new)
        full == build_full(r.builder)
    IN  IF ~r.done
        THEN [ok |-> FALSE, panic |-> FALSE, err |-> r.err, read |-> r.read]
        ELSE IF full.ok
        THEN [ok |-> TRUE, panic |-> FALSE, val |-> full.val, read |-> r.read]
        ELSE IF full.panic
        THEN [ok |-> FALSE, panic |-> TRUE, read |-> r.read]
        ELSE IF full.err[1]
        THEN [ok |-> FALSE, panic |-> FALSE, read |-> r.read,
              err |-> [kind |-> "missing_field", field |-> "index"]]
        ELSE IF full.err[2]
        THEN [ok |-> FALSE, panic |-> FALSE, read |-> r.read,
              err |-> [kind |-> "missing_field", field |-> "context"]]
        ELSE IF full.err[3]
        THEN [ok |-> FALSE, panic |-> FALSE, read |-> r.read,
              err |-> [kind |-> "missing_field", field |-> "key"]]
        ELSE [ok |-> FALSE, panic |-> TRUE, read |-> r.read]

\* Session::deserialize: deserialize_struct hands the record to visit_map.
\* When the visitor returns a Session and has left entries of the record
\* unread, the format either returns the Session or rejects the leftover
\* input with an error of its own.
deserialize(w) ==
    LET v == visit_map(map_entries(w))
    IN  IF v.ok /\ v.read < Len(map_entries(w))
        THEN {v, [ok |-> FALSE, panic |-> FALSE, read |-> v.read,
                  err |-> [kind |-> "trailing_entries"]]}
        ELSE {v}

(***************************************************************************)
(* SpecCodec: a Session is serialized in some format, or a record arrives  *)
(* from outside; the record in transit is then deserialized.  The codec    *)
(* keeps no state between calls, so a behaviour is one such exchange.      *)
(***************************************************************************)
\* entries of the records that arrive from outside
InputEntries ==
    {[name |-> SESSION_INDEX_STRING, value |-> i] : i \in {U64(0), U64(42)}}
    \cup {[name |-> SESSION_CONTEXT_STRING, value |-> CtxA],
          [name |-> SESSION_KEY_STRING, value |-> KeyA],
          [name |-> "nonce", value |-> CtxA]}

InputRecords ==
    UNION {[1..n -> InputEntries] : n \in 0..MaxEntries}

\* the Sessions of SpecCodec
CodecSessions ==
    [index : {U64(42), U64_MAX}, context : {CtxA}, key : {KeyA}]

InitCodec ==
    /\ overflow_checks \in BOOLEAN
    /\ builder = SessionBuilder_new
    /\ session \in {Some(x) : x \in CodecSessions}
    /\ panicked = FALSE
    /\ call_log = <<>>
    /\ last = NoOp
    /\ wire = None
    /\ decoded = None
    /\ pair = None

\* session.serialize(serializer) with a serializer of format f
Serialize(f) ==
    /\ ~panicked
    /\ wire = None /\ decoded = None
    /\ wire' = Some([format |-> f,
                     len |-> serialize(session.val).len,
                     fields |-> serialize(session.val).fields,
                     source |-> session])
    /\ decoded' = None
    /\ UNCHANGED <<pair, session, overflow_checks, panicked, call_log, builder, last>>

\* a record written by someone else arrives; its header agrees with it
Receive(rec) ==
    /\ ~panicked
    /\ wire = None /\ decoded = None
    /\ wire' = Some([format |-> "delimited", len |-> Len(rec), fields |-> rec,
                     source |-> None])
    /\ decoded' = None
    /\ UNCHANGED <<pair, session, overflow_checks, panicked, call_log, builder, last>>

\* Session::deserialize(deserializer) on the record in transit
Deserialize ==
    /\ ~panicked
    /\ wire.some
    /\ \E r \in deserialize(wire.val) :
          /\ decoded' = Some([input |-> wire.val, result |-> r])
          /\ panicked' = r.panic
    /\ wire' = None
    /\ UNCHANGED <<pair, session, overflow_checks, call_log, builder, last>>

NextCodec ==
    \/ \E f \in Formats : Serialize(f)
    \/ \E rec \in InputRecords : Receive(rec)
    \/ Deserialize

SpecCodec == InitCodec /\ [][NextCodec]_vars

FieldNames == {SESSION_INDEX_STRING, SESSION_CONTEXT_STRING, SESSION_KEY_STRING}
FieldOf(s, name) ==
    IF name = SESSION_INDEX_STRING THEN s.index
    ELSE IF name = SESSION_CONTEXT_STRING THEN s.context
    ELSE s.key

\* C6: if deserialization returns a Session, each of index, context and key
\* appeared as a named entry of the record and the Session's field equals a
\* value supplied under that name: nothing is filled in by default.
C6_DeserializeNeverDefaults ==
    (decoded.some /\ decoded.val.result.ok) =>
        \A name \in FieldNames :
            \E n \in DOMAIN decoded.val.input.fields :
                /\ decoded.val.input.fields[n].name = name
                /\ decoded.val.input.fields[n].value =
                       FieldOf(decoded.val.result.val, name)

\* a record from outside, key first, was decoded into a Session
C6_Witness ==
    /\ decoded.some
    /\ ~decoded.val.input.source.some
    /\ decoded.val.result.ok
    /\ decoded.val.input.fields[1].name = SESSION_KEY_STRING

\* C9: deserializing the record produced by serializing a Session yields a
\* Session with the same index, context and key, whose next
\* generate_next_key call hands the primitive the same index.
C9_RoundTrip ==
    (decoded.some /\ decoded.val.input.source.some) =>
        /\ decoded.val.result.ok
        /\ decoded.val.result.val = decoded.val.input.source.val
        /\ \A o \in generate_next_key(decoded.val.result.val,
                                      Bytes(DERIVED_KEY_BYTES_MIN, 0), overflow_checks) :
               o.passed = Some(decoded.val.input.source.val.index)

\* C10: decoding a record that contains an entry whose name is not index,
\* context or key fails with an unknown-field error, wherever the entry is.
C10_UnknownFieldRejected ==
    (decoded.some /\ \E n \in DOMAIN decoded.val.input.fields :
                         decoded.val.input.fields[n].name \notin FieldNames) =>
        /\ ~decoded.val.result.ok
        /\ decoded.val.result.err.kind = "unknown_field"

\* the field names of the record that was decoded
NamesIn(fields) == {fields[n].name : n \in DOMAIN fields}
\* the elements of a sequence
Range(seq) == {seq[n] : n \in DOMAIN seq}

\* C11: the unknown-field error names the canonical field set: the expected
\* fields it reports are exactly index, context and key.
C11_UnknownFieldNamesCanonicalSet ==
    (decoded.some /\ ~decoded.val.result.ok
        /\ decoded.val.result.err.kind = "unknown_field") =>
            Range(decoded.val.result.err.expected) = {"index", "context", "key"}

\* C12: decoding a record with fewer than three entries, all with recognized
\* names, fails with a wrong-length error.
C12_FewerThanThreeIsWrongLength ==
    (decoded.some /\ Len(decoded.val.input.fields) < 3
        /\ NamesIn(decoded.val.input.fields) \subseteq FieldNames) =>
            /\ ~decoded.val.result.ok
            /\ decoded.val.result.err.kind = "invalid_length"

\* a record of two recognized entries was decoded
C12_Witness ==
    /\ decoded.some
    /\ Len(decoded.val.input.fields) = 2
    /\ NamesIn(decoded.val.input.fields) = {"index", "key"}
    /\ ~decoded.val.result.ok

\* the record holds exactly two of the three required fields and no other
\* name
OnlyTwoRequired(fields) ==
    /\ NamesIn(fields) \subseteq FieldNames
    /\ Cardinality(NamesIn(fields)) = 2

\* C13 as stated: decoding a record that contains only two of the three
\* required fields fails with a missing-field error naming the absent field.
C13_TwoFieldsIsMissingField ==
    (decoded.some /\ OnlyTwoRequired(decoded.val.input.fields)) =>
        /\ ~decoded.val.result.ok
        /\ decoded.val.result.err.kind = "missing_field"
        /\ {decoded.val.result.err.field} = FieldNames \ NamesIn(decoded.val.input.fields)

\* the first field, in the order index, context, key, that is not among names
FirstAbsent(names) ==
    IF "index" \notin names THEN "index"
    ELSE IF "context" \notin names THEN "context"
    ELSE "key"

\* C13 amended: such a record fails with a wrong-length error when it has
\* fewer than three entries; when it has three or more it fails with a
\* missing-field error naming the first field, in the order index, context,
\* key, that is absent from its first three entries (with exactly three
\* entries, the absent field).
C13_TwoFieldsAmended ==
    (decoded.some /\ OnlyTwoRequired(decoded.val.input.fields)) =>
        /\ ~decoded.val.result.ok
        /\ Len(decoded.val.input.fields) < 3 =>
               decoded.val.result.err.kind = "invalid_length"
        /\ Len(decoded.val.input.fields) >= 3 =>
               /\ decoded.val.result.err.kind = "missing_field"
               /\ decoded.val.result.err.field =
                      FirstAbsent(NamesIn(SubSeq(decoded.val.input.fields, 1, 3)))
        /\ Len(decoded.val.input.fields) = 3 =>
               {decoded.val.result.err.field} =
                      FieldNames \ NamesIn(decoded.val.input.fields)

\* three entries, index twice and context, were decoded: key is absent
C13_Witness ==
    /\ decoded.some
    /\ Len(decoded.val.input.fields) = 3
    /\ NamesIn(decoded.val.input.fields) = {"index", "context"}
    /\ ~decoded.val.result.ok
    /\ decoded.val.result.err.kind = "missing_field"

\* the names of the three entries visit_map consumed
Consumed(d) == NamesIn(SubSeq(map_entries(d.input), 1, 3))

\* C14: when three entries have been consumed and a field is still absent,
\* the error is a missing-field error naming index if index is absent, else
\* context if context is absent, else key.
C14_MissingFieldPriority ==
    (decoded.some /\ Len(map_entries(decoded.val.input)) >= 3
        /\ Consumed(decoded.val) \subseteq FieldNames
        /\ Consumed(decoded.val) # FieldNames) =>
            /\ ~decoded.val.result.ok
            /\ decoded.val.result.err.kind = "missing_field"
            /\ decoded.val.result.err.field =
                  FirstAbsent(Consumed(decoded.val))

\* three entries all named key were decoded: index and context are both
\* absent
C14_Witness ==
    /\ decoded.some
    /\ Len(decoded.val.input.fields) = 3
    /\ NamesIn(decoded.val.input.fields) = {"key"}
    /\ ~decoded.val.result.ok

\* C15: serializing a Session produces a record of exactly three named
\* fields in the order index, context, key, and the number of fields
\* announced when the record is opened equals the number emitted.
C15_SerializeThreeFieldsAnnounced ==
    (wire.some /\ wire.val.source.some) =>
        /\ Len(wire.val.fields) = 3
        /\ wire.val.fields[1].name = "index"
        /\ wire.val.fields[2].name = "context"
        /\ wire.val.fields[3].name = "key"
        /\ wire.val.len = Len(wire.val.fields)

(***************************************************************************)
(* SpecBuilderCodec: the builder and the codec together.  A behaviour is   *)
(* either a run of SpecBuilder or an exchange of SpecCodec.                *)
(***************************************************************************)
InitBuilderCodec == InitBuilder \/ InitCodec

\* the behaviour started as a builder run / as a codec exchange
BuilderRun == session = None \/ last.op # "none"
CodecRun == session.some /\ last.op = "none"

NextBuilderCodec ==
    \/ BuilderRun /\ NextBuilder
    \/ CodecRun /\ NextCodec

SpecBuilderCodec == InitBuilderCodec /\ [][NextBuilderCodec]_vars

\* C20: no panic is reachable in the builder or the codec: build_full
\* unwraps build() only when build() returned a Session, every error report
\* of build_full has a flag set, and the deserializer's missing-field mapping
\* never takes its panic branch.
C20_NoPanicReachable ==
    /\ ~panicked
    /\ last.op = "build_full" =>
          /\ ~last.result.panic
          /\ ~last.result.ok => \E i \in 1..3 : last.result.err[i]
    /\ decoded.some => ~decoded.val.result.panic

\* a record was decoded whose three entries left the key absent: build_full
\* reported it and the mapping named it in its last branch before the panic
C20_Witness ==
    /\ decoded.some
    /\ ~decoded.val.result.ok
    /\ decoded.val.result.err.kind = "missing_field"
    /\ decoded.val.result.err.field = "key"

(***************************************************************************)
(* SpecPair: two Sessions are built from the same key and context, each    *)
(* with the index left unset or set to 0, and generate_next_key is called  *)
(* on each of them independently.  The derivation primitive is a           *)
(* deterministic function: it reports an error exactly at the indices of   *)
(* `fails`, and then either always or never writes the buffer.             *)
(***************************************************************************)
\* the primitives of SpecPair
Primitives == [fails : SUBSET {U64(0), U64(1)}, writes : BOOLEAN]

\* the outcome of the primitive prim among the outcomes outs of a call at
\* index
PrimitiveOutcome(prim, index, buffer, outs) ==
    {o \in outs :
        /\ o.rc.some
        /\ (o.rc.val # 0) = (index \in prim.fails)
        /\ (o.rc.val # 0) => ((o.buffer # buffer) = prim.writes)}

InitPair ==
    /\ overflow_checks \in BOOLEAN
    /\ builder = SessionBuilder_new
    /\ session = None
    /\ panicked = FALSE
    /\ call_log = <<>>
    /\ last = NoOp
    /\ wire = None
    /\ decoded = None
    /\ \E k \in {KeyA}, c \in {None, Some(CtxA)}, prim \in Primitives :
       \E ia, ib \in {None, Some(U64(0))} :
          LET ba == [index |-> ia, context |-> c, key |-> Some(k)]
              bb == [index |-> ib, context |-> c, key |-> Some(k)]
          IN  pair = Some([builder |-> <<ba, bb>>,
                           session |-> <<build(ba).val, build(bb).val>>,
                           log |-> <<<<>>, <<>>>>,
                           primitive |-> prim])

\* generate_next_key on Session w (1 or 2) of the pair, with a zeroed
\* buffer of a valid length
PairGenerateNextKey(w, len) ==
    /\ pair.some
    /\ ~panicked
    /\ Len(pair.val.log[w]) < MaxCalls
    /\ \E o \in PrimitiveOutcome(pair.val.primitive, pair.val.session[w].index,
                                 Bytes(len, 0),
                                 generate_next_key(pair.val.session[w], Bytes(len, 0),
                                                   overflow_checks)) :
          /\ pair' = Some([pair.val EXCEPT
                              !.session[w] = o.self,
                              !.log[w] = Append(@, [len |-> len, ret |-> o.ret,
                                                    buf_out |-> o.buffer])])
          /\ panicked' = o.panic
    /\ UNCHANGED <<session, overflow_checks, call_log, builder, last, wire, decoded>>

NextPair ==
    \E w \in {1, 2}, len \in {DERIVED_KEY_BYTES_MIN, DERIVED_KEY_BYTES_MAX} :
        PairGenerateNextKey(w, len)

SpecPair == InitPair /\ [][NextPair]_vars

\* the two Sessions were given the same buffer lengths on their first n calls
SameLens(n) ==
    \A j \in 1..n : pair.val.log[1][j].len = pair.val.log[2][j].len

====
